---------------------------- MODULE Spec2Model ----------------------------
(***************************************************************************)
(* A model of simple_fs_abstraction (src/mod.ts): the immutable Path value *)
(* with its parser and its composition, and the in-memory filesystem       *)
(* MemoryFs with its working directory.                                    *)
(*                                                                         *)
(* A string is a sequence of one-character strings, so that rendering a    *)
(* path and parsing a string are computed character by character.          *)
(* A fallible call returns a record: ok, the value, and the error thrown.  *)
(***************************************************************************)
EXTENDS Integers, Sequences, FiniteSets

VARIABLES
  pin,               \* the input of a Path computation
  pout,              \* what the Path computation returned
  root,              \* MemoryFs.root: the tree of directories and data files
  workingDirectory,  \* MemoryFs.workingDirectory
  call,              \* the last call made on the filesystem, with its arguments
  outcome,           \* what that call returned or threw, and the promise returned
  before,            \* root and workingDirectory when that call started
  resolution,        \* a call of MemoryDirectory.resolveAbsolutePath and its result
  arrays,            \* the arrays of components there are, by address
  paths,             \* the Path objects there are: relativity, address of components
  last               \* the last step taken on the Path objects and what it gave

vars ==
  <<pin, pout, root, workingDirectory, call, outcome, before, resolution,
    arrays, paths, last>>

pathVars == <<pin, pout>>

fsVars == <<root, workingDirectory, call, outcome, before>>

objVars == <<arrays, paths, last>>

-----------------------------------------------------------------------------
(* Bounds of the model. *)

\* the longest component, in characters, of a path that is rendered
MaxCompLen == 2

\* the most components of a path that is rendered
MaxComps == 2

\* the most leading `..` steps of a constructed relative path
MaxSteps == 2

\* the longest string, in characters, handed to the parser
MaxStrLen == 4

\* the most `/`-separated segments of a string handed to the parser
MaxSegs == 4

\* the most components of a path that is concatenated
MaxCatComps == 1

\* the most entries of the tree a filesystem is constructed from
MaxEntries == 3

\* the most `/`-separated segments of a string handed to cd
MaxCdSegs == 2

\* the most components of a path that is compared with another
MaxCmpComps == 2

\* the most components of a path that is resolved in a tree
MaxResolveComps == 3

\* the most arrays of components there are at a time
MaxArrays == 2

\* the most Path objects there are at a time
MaxPathObjects == 2

\* the most elements of an array of components
MaxArrayLen == 1

-----------------------------------------------------------------------------
(* Strings. *)

SeqsUpTo(S, n) == UNION {[1..k -> S] : k \in 0..n}

Front(s) == SubSeq(s, 1, Len(s) - 1)

Last(s) == s[Len(s)]

\* s.includes(c)
includes(s, c) == \E i \in 1..Len(s) : s[i] = c

\* s.startsWith(c), for a one-character c
startsWith(s, c) == Len(s) > 0 /\ s[1] = c

RECURSIVE splitLoop(_, _, _, _)
splitLoop(str, i, parts, cur) ==
  IF i > Len(str) THEN Append(parts, cur)
  ELSE IF str[i] = "/" THEN splitLoop(str, i + 1, Append(parts, cur), <<>>)
  ELSE splitLoop(str, i + 1, parts, Append(cur, str[i]))

\* str.split("/"): the pieces between the slashes, empty pieces included
split(str) == splitLoop(str, 1, <<>>, <<>>)

-----------------------------------------------------------------------------
(* Path. *)

\* the relativity of an absolute path
Absolute == -1

NoPath == [relativity |-> 0, components |-> <<>>]

Ok(v) == [ok |-> TRUE, val |-> v, err |-> "", why |-> "", stringToParse |-> <<>>]

Throw(e, w) ==
  [ok |-> FALSE, val |-> NoPath, err |-> e, why |-> w, stringToParse |-> <<>>]

\* throw new ParseSimpleFsPathError(message, str)
ParseSimpleFsPathError(why, str) ==
  [Throw("ParseSimpleFsPathError", why) EXCEPT !.stringToParse = str]

isComponent(s) ==
  ~includes(s, "/") /\ s # <<>> /\ s # <<".">> /\ s # <<".", ".">>

\* the private constructor
newPath(relativity, components) ==
  IF \E i \in 1..Len(components) : ~isComponent(components[i])
  THEN Throw("string", "InvalidComponent")
  ELSE Ok([relativity |-> relativity, components |-> components])

relative(components, parentSteps) ==
  IF parentSteps \in Nat
  THEN newPath(parentSteps, components)
  ELSE Throw("string", "InvalidRelativity")

absolute(components) == newPath(Absolute, components)

isAbsolute(this) == this.relativity = Absolute

getParentSteps(this) == IF isAbsolute(this) THEN 0 ELSE this.relativity

getComponentCount(this) == Len(this.components)

\* getIthComponent(0); <<>> stands for undefined, which no component equals
getFirstComponent(this) ==
  IF Len(this.components) > 0 THEN this.components[1] ELSE <<>>

popFront(this) ==
  IF Len(this.components) > 0
  THEN IF isAbsolute(this)
       THEN absolute(Tail(this.components))
       ELSE relative(Tail(this.components), this.relativity)
  ELSE Throw("undefined", "undefined")

\* equals that lets `this` be the shorter of the two
equalsUpToLength(this, other) ==
  IF this.relativity # other.relativity
     \/ Len(this.components) > Len(other.components)
  THEN FALSE
  ELSE \A i \in 1..Len(this.components) : this.components[i] = other.components[i]

equals(this, other) ==
  IF this.relativity # other.relativity
     \/ Len(this.components) # Len(other.components)
  THEN FALSE
  ELSE \A i \in 1..Len(this.components) : this.components[i] = other.components[i]

\* prefixes that asks for as many components in `other` as in `this`
prefixesSameLength(this, other) ==
  IF this.relativity # other.relativity
     \/ Len(this.components) # Len(other.components)
  THEN FALSE
  ELSE \A i \in 1..Len(this.components) : this.components[i] = other.components[i]

prefixes(this, other) ==
  IF this.relativity # other.relativity
     \/ Len(this.components) > Len(other.components)
  THEN FALSE
  ELSE \A i \in 1..Len(this.components) : this.components[i] = other.components[i]

isPrefixedBy(this, other) == prefixes(other, this)

\* concatSteps with the component removed at the front instead of the back
RECURSIVE concatStepsShift(_, _, _)
concatStepsShift(relativity, components, steps) ==
  IF steps <= 0 THEN [relativity |-> relativity, components |-> components]
  ELSE IF Len(components) > 0
       THEN concatStepsShift(relativity, Tail(components), steps - 1)
       ELSE concatStepsShift(relativity + 1, components, steps - 1)

\* the loop over the `..` steps of the appended path
RECURSIVE concatSteps(_, _, _)
concatSteps(relativity, components, steps) ==
  IF steps <= 0 THEN [relativity |-> relativity, components |-> components]
  ELSE IF Len(components) > 0
       THEN concatSteps(relativity, Front(components), steps - 1)
       ELSE concatSteps(relativity + 1, components, steps - 1)

\* concat with the check for stepping above the root off by one
concatLateCheck(this, other) ==
  IF isAbsolute(other)
  THEN Throw("ConcatPathError", "AbsoluteAppend")
  ELSE LET stepped == concatSteps(this.relativity, this.components, other.relativity)
       IN  IF isAbsolute(this) /\ stepped.relativity > 0
           THEN Throw("ConcatPathError", "RootOverflowOnConcat")
           ELSE IF isAbsolute(this)
                THEN absolute(stepped.components \o other.components)
                ELSE relative(stepped.components \o other.components,
                              stepped.relativity)

\* concat with the check for stepping above the root true of the root itself
concatStrictCheck(this, other) ==
  IF isAbsolute(other)
  THEN Throw("ConcatPathError", "AbsoluteAppend")
  ELSE LET stepped == concatSteps(this.relativity, this.components, other.relativity)
       IN  IF isAbsolute(this) /\ stepped.relativity >= -1
           THEN Throw("ConcatPathError", "RootOverflowOnConcat")
           ELSE IF isAbsolute(this)
                THEN absolute(stepped.components \o other.components)
                ELSE relative(stepped.components \o other.components,
                              stepped.relativity)

concat(this, other) ==
  IF isAbsolute(other)
  THEN Throw("ConcatPathError", "AbsoluteAppend")
  ELSE LET stepped == concatSteps(this.relativity, this.components, other.relativity)
       IN  IF isAbsolute(this) /\ stepped.relativity > -1
           THEN Throw("ConcatPathError", "RootOverflowOnConcat")
           ELSE IF isAbsolute(this)
                THEN absolute(stepped.components \o other.components)
                ELSE relative(stepped.components \o other.components,
                              stepped.relativity)

\* rendered = `${rendered}/${component}` for the components from index i on
RECURSIVE renderFrom(_, _, _)
renderFrom(rendered, components, i) ==
  IF i > Len(components) THEN rendered
  ELSE renderFrom(rendered \o <<"/">> \o components[i], components, i + 1)

\* renderSteps with the loop run once more
RECURSIVE renderStepsOnceMore(_, _, _)
renderStepsOnceMore(rendered, i, relativity) ==
  IF i > relativity THEN rendered
  ELSE renderStepsOnceMore(rendered \o <<"/", ".", ".">>, i + 1, relativity)

\* rendered = `${rendered}/..` for i from 1 below relativity
RECURSIVE renderSteps(_, _, _)
renderSteps(rendered, i, relativity) ==
  IF i >= relativity THEN rendered
  ELSE renderSteps(rendered \o <<"/", ".", ".">>, i + 1, relativity)

\* toString with a relative path of no steps rendered from "./" on
toStringDotSlash(this) ==
  IF isAbsolute(this)
  THEN IF Len(this.components) = 0 THEN <<"/">>
       ELSE renderFrom(<<>>, this.components, 1)
  ELSE IF Len(this.components) = 0 /\ this.relativity = 0 THEN <<".">>
       ELSE LET steps == renderSteps(IF this.relativity = 0 THEN <<".">> ELSE <<".", ".">>,
                                     1, this.relativity)
            IN  IF Len(this.components) = 0 THEN steps
                ELSE renderFrom(steps \o <<"/">> \o this.components[1],
                                this.components, 2)

toString(this) ==
  IF isAbsolute(this)
  THEN IF Len(this.components) = 0 THEN <<"/">>
       ELSE renderFrom(<<>>, this.components, 1)
  ELSE IF Len(this.components) = 0 /\ this.relativity = 0 THEN <<".">>
       ELSE LET steps == renderSteps(IF this.relativity = 0 THEN <<>> ELSE <<".", ".">>,
                                     1, this.relativity)
            IN  IF Len(this.components) = 0 THEN steps
                ELSE renderFrom((IF this.relativity > 0 THEN steps \o <<"/">> ELSE steps)
                                  \o this.components[1],
                                this.components, 2)

\* parseParts with a `..` that leaves the buffered components alone
RECURSIVE parsePartsNoPop(_, _, _, _, _, _, _)
parsePartsNoPop(str, parts, i, isAbs, parentSteps, components, isFirstEmptyComponent) ==
  IF i > Len(parts)
  THEN IF isAbs THEN absolute(components) ELSE relative(components, parentSteps)
  ELSE LET part == parts[i] IN
       IF part = <<>>
       THEN IF isFirstEmptyComponent /\ isAbs
            THEN parsePartsNoPop(str, parts, i + 1, isAbs, parentSteps, components, FALSE)
            ELSE ParseSimpleFsPathError("EmptyComponent", str)
       ELSE IF part = <<".">>
       THEN parsePartsNoPop(str, parts, i + 1, isAbs, parentSteps, components,
                            isFirstEmptyComponent)
       ELSE IF part = <<".", ".">>
       THEN IF Len(components) = 0
            THEN IF isAbs
                 THEN ParseSimpleFsPathError("RootOverflow", str)
                 ELSE parsePartsNoPop(str, parts, i + 1, isAbs, parentSteps + 1, components,
                                      isFirstEmptyComponent)
            ELSE parsePartsNoPop(str, parts, i + 1, isAbs, parentSteps, components,
                                 isFirstEmptyComponent)
       ELSE parsePartsNoPop(str, parts, i + 1, isAbs, parentSteps, Append(components, part),
                            isFirstEmptyComponent)

\* the loop of parsePath over the parts of the string
RECURSIVE parseParts(_, _, _, _, _, _, _)
parseParts(str, parts, i, isAbs, parentSteps, components, isFirstEmptyComponent) ==
  IF i > Len(parts)
  THEN IF isAbs THEN absolute(components) ELSE relative(components, parentSteps)
  ELSE LET part == parts[i] IN
       IF part = <<>>
       THEN IF isFirstEmptyComponent /\ isAbs
            THEN parseParts(str, parts, i + 1, isAbs, parentSteps, components, FALSE)
            ELSE ParseSimpleFsPathError("EmptyComponent", str)
       ELSE IF part = <<".">>
       THEN parseParts(str, parts, i + 1, isAbs, parentSteps, components,
                       isFirstEmptyComponent)
       ELSE IF part = <<".", ".">>
       THEN IF Len(components) = 0
            THEN IF isAbs
                 THEN ParseSimpleFsPathError("RootOverflow", str)
                 ELSE parseParts(str, parts, i + 1, isAbs, parentSteps + 1, components,
                                 isFirstEmptyComponent)
            ELSE parseParts(str, parts, i + 1, isAbs, parentSteps, Front(components),
                            isFirstEmptyComponent)
       ELSE parseParts(str, parts, i + 1, isAbs, parentSteps, Append(components, part),
                       isFirstEmptyComponent)

\* the parts of a string without the empty ones, but for the one before the
\* leading slash
partsWithoutEmpty(str) ==
  LET nonEmpty(part) == part # <<>>
  IN  (IF startsWith(str, "/") THEN <<<<>>>> ELSE <<>>) \o SelectSeq(split(str), nonEmpty)

\* parsePath that passes over the empty parts of the string
parsePathSkipsEmpty(str) ==
  IF Len(str) = 0 THEN ParseSimpleFsPathError("EmptyPathString", str)
  ELSE IF str = <<"/">> THEN absolute(<<>>)
  ELSE parseParts(str, partsWithoutEmpty(str), 1, startsWith(str, "/"), 0, <<>>, TRUE)

parsePath(str) ==
  IF Len(str) = 0 THEN ParseSimpleFsPathError("EmptyPathString", str)
  ELSE IF str = <<"/">> THEN absolute(<<>>)
  ELSE parseParts(str, split(str), 1, startsWith(str, "/"), 0, <<>>, TRUE)

-----------------------------------------------------------------------------
(* Path, as objects: a Path object holds its relativity and the address of *)
(* its array of components.  An array is known to the caller when the      *)
(* caller made it and passed it to a constructor, or when getComponents    *)
(* returned it.  An array that no object and no caller can reach is left   *)
(* out.                                                                    *)

Array(elems, passed, returned) ==
  [elems |-> elems, passed |-> passed, returned |-> returned]

\* the arrays and the objects a call leaves, whether it threw, and the
\* address or the object it returned (0 for none)
Heap(as, ps, threw, made) == [arrays |-> as, paths |-> ps, threw |-> threw, made |-> made]

\* the Path value of the object p
view(as, ps, p) ==
  [relativity |-> ps[p].relativity, components |-> as[ps[p].components].elems]

\* new Path(relativity, components), the array at `address` being the
\* argument: the object keeps the array it is given
constructPath(as, ps, relativity, address) ==
  IF \E i \in 1..Len(as[address].elems) : ~isComponent(as[address].elems[i])
  THEN Heap(as, ps, TRUE, 0)
  ELSE Heap(as, Append(ps, [relativity |-> relativity, components |-> address]),
            FALSE, Len(ps) + 1)

\* Path.relative(components, parentSteps)
relativeObject(as, ps, address, parentSteps) ==
  IF parentSteps \in Nat THEN constructPath(as, ps, parentSteps, address)
  ELSE Heap(as, ps, TRUE, 0)

\* Path.absolute(components)
absoluteObject(as, ps, address) == constructPath(as, ps, Absolute, address)

\* a Path made of a fresh array holding `elems`
fromCopy(as, ps, relativity, elems) ==
  IF relativity = Absolute
  THEN absoluteObject(Append(as, Array(elems, FALSE, FALSE)), ps, Len(as) + 1)
  ELSE relativeObject(Append(as, Array(elems, FALSE, FALSE)), ps, Len(as) + 1, relativity)

\* p.popFront(): a copy of the components is shifted
popFrontObject(as, ps, p) ==
  IF Len(as[ps[p].components].elems) > 0
  THEN fromCopy(as, ps, ps[p].relativity, Tail(as[ps[p].components].elems))
  ELSE Heap(as, ps, FALSE, 0)

\* p.concat(q): a copy of the components of p is popped and pushed
concatObject(as, ps, p, q) ==
  IF ps[q].relativity = Absolute THEN Heap(as, ps, TRUE, 0)
  ELSE LET stepped == concatSteps(ps[p].relativity, as[ps[p].components].elems,
                                  ps[q].relativity)
       IN  IF ps[p].relativity = Absolute /\ stepped.relativity > -1
           THEN Heap(as, ps, TRUE, 0)
           ELSE fromCopy(as, ps, stepped.relativity,
                         stepped.components \o as[ps[q].components].elems)

\* getComponents that returns the array of the object itself
getComponentsAliased(as, ps, p) ==
  Heap([as EXCEPT ![ps[p].components].returned = TRUE], ps, FALSE, ps[p].components)

\* p.getComponents(): a copy of the components
getComponents(as, ps, p) ==
  Heap(Append(as, Array(as[ps[p].components].elems, FALSE, TRUE)), ps, FALSE,
       Len(as) + 1)

-----------------------------------------------------------------------------
(* Pathish: a string to be parsed, or a Path. *)

PathishString(s) == [isString |-> TRUE, str |-> s, path |-> NoPath]

PathishPath(p) == [isString |-> FALSE, str |-> <<>>, path |-> p]

fromPathish(pathish) ==
  IF pathish.isString THEN parsePath(pathish.str) ELSE Ok(pathish.path)

-----------------------------------------------------------------------------
(* MemoryDirectory: a tree of entries.  An entry is a directory, with its  *)
(* contents a function from names to entries, or a data file, with bytes.  *)

NoContents == [n \in {} |-> 0]

MemoryDirectory(contents) == [kind |-> "directory", contents |-> contents, bytes |-> <<>>]

Uint8Array(bytes) == [kind |-> "data", contents |-> NoContents, bytes |-> bytes]

EmptyDirectory == MemoryDirectory(NoContents)

\* this.contents.set(name, entry)
contentsSet(dir, name, entry) ==
  MemoryDirectory([n \in DOMAIN dir.contents \cup {name} |->
                     IF n = name THEN entry ELSE dir.contents[n]])

\* what resolveAbsolutePath returns or throws, and the directory it was called
\* on as the call leaves it
Resolved(found, entry, dir) ==
  [ok |-> TRUE, found |-> found, entry |-> entry, dir |-> dir, err |-> "", why |-> ""]

ResolveThrow(why, dir) ==
  [ok |-> FALSE, found |-> "nothing", entry |-> EmptyDirectory, dir |-> dir,
   err |-> "MemoryFsError", why |-> why]

\* the result of the recursive call on the child `name`, seen from `this`
inChild(this, name, sub) == [sub EXCEPT !.dir = contentsSet(this, name, sub.dir)]

\* resolveAbsolutePath that finds nothing where a data file is in the way
RECURSIVE resolveSkippingData(_, _, _)
resolveSkippingData(this, path, createParentDirs) ==
  LET firstComponent == getFirstComponent(path)
      popped == popFront(path).val
      componentCount == getComponentCount(path)
  IN  IF firstComponent = <<>> THEN Resolved("directory", this, this)
      ELSE IF firstComponent \notin DOMAIN this.contents
      THEN IF createParentDirs
           THEN IF componentCount = 1 THEN Resolved("nothing", EmptyDirectory, this)
                ELSE inChild(this, firstComponent,
                             resolveSkippingData(EmptyDirectory, popped, createParentDirs))
           ELSE IF componentCount = 1 THEN Resolved("nothing", EmptyDirectory, this)
                ELSE ResolveThrow("NO_SUCH_FILE", this)
      ELSE LET file == this.contents[firstComponent] IN
           IF file.kind = "directory"
           THEN IF componentCount = 1 THEN Resolved("directory", file, this)
                ELSE inChild(this, firstComponent,
                             resolveSkippingData(file, popped, createParentDirs))
           ELSE IF componentCount = 1 THEN Resolved("data", file, this)
                ELSE Resolved("nothing", EmptyDirectory, this)

\* resolveAbsolutePath that, creating directories, creates one for the last
\* component too
RECURSIVE resolveCreatingLast(_, _, _)
resolveCreatingLast(this, path, createParentDirs) ==
  LET firstComponent == getFirstComponent(path)
      popped == popFront(path).val
      componentCount == getComponentCount(path)
  IN  IF firstComponent = <<>> THEN Resolved("directory", this, this)
      ELSE IF firstComponent \notin DOMAIN this.contents
      THEN IF createParentDirs
           THEN IF componentCount = 1 THEN Resolved("nothing", EmptyDirectory,
                                              contentsSet(this, firstComponent, EmptyDirectory))
                ELSE inChild(this, firstComponent,
                             resolveCreatingLast(EmptyDirectory, popped, createParentDirs))
           ELSE IF componentCount = 1 THEN Resolved("nothing", EmptyDirectory, this)
                ELSE ResolveThrow("NO_SUCH_FILE", this)
      ELSE LET file == this.contents[firstComponent] IN
           IF file.kind = "directory"
           THEN IF componentCount = 1 THEN Resolved("directory", file, this)
                ELSE inChild(this, firstComponent,
                             resolveCreatingLast(file, popped, createParentDirs))
           ELSE IF componentCount = 1 THEN Resolved("data", file, this)
                ELSE ResolveThrow("EXPECTED_DIRECTORY_GOT_DATA", this)

\* resolveAbsolutePath that, creating directories, puts one in the place of a
\* data file in the way before it throws
RECURSIVE resolveReplacingData(_, _, _)
resolveReplacingData(this, path, createParentDirs) ==
  LET firstComponent == getFirstComponent(path)
      popped == popFront(path).val
      componentCount == getComponentCount(path)
  IN  IF firstComponent = <<>> THEN Resolved("directory", this, this)
      ELSE IF firstComponent \notin DOMAIN this.contents
      THEN IF createParentDirs
           THEN IF componentCount = 1 THEN Resolved("nothing", EmptyDirectory, this)
                ELSE inChild(this, firstComponent,
                             resolveReplacingData(EmptyDirectory, popped, createParentDirs))
           ELSE IF componentCount = 1 THEN Resolved("nothing", EmptyDirectory, this)
                ELSE ResolveThrow("NO_SUCH_FILE", this)
      ELSE LET file == this.contents[firstComponent] IN
           IF file.kind = "directory"
           THEN IF componentCount = 1 THEN Resolved("directory", file, this)
                ELSE inChild(this, firstComponent,
                             resolveReplacingData(file, popped, createParentDirs))
           ELSE IF componentCount = 1 THEN Resolved("data", file, this)
                ELSE IF createParentDirs
                THEN ResolveThrow("EXPECTED_DIRECTORY_GOT_DATA",
                                  contentsSet(this, firstComponent, EmptyDirectory))
                ELSE ResolveThrow("EXPECTED_DIRECTORY_GOT_DATA", this)

RECURSIVE resolveAbsolutePath(_, _, _)
resolveAbsolutePath(this, path, createParentDirs) ==
  LET firstComponent == getFirstComponent(path)
      popped == popFront(path).val
      componentCount == getComponentCount(path)
  IN  IF firstComponent = <<>> THEN Resolved("directory", this, this)
      ELSE IF firstComponent \notin DOMAIN this.contents
      THEN IF createParentDirs
           THEN IF componentCount = 1 THEN Resolved("nothing", EmptyDirectory, this)
                ELSE inChild(this, firstComponent,
                             resolveAbsolutePath(EmptyDirectory, popped, createParentDirs))
           ELSE IF componentCount = 1 THEN Resolved("nothing", EmptyDirectory, this)
                ELSE ResolveThrow("NO_SUCH_FILE", this)
      ELSE LET file == this.contents[firstComponent] IN
           IF file.kind = "directory"
           THEN IF componentCount = 1 THEN Resolved("directory", file, this)
                ELSE inChild(this, firstComponent,
                             resolveAbsolutePath(file, popped, createParentDirs))
           ELSE IF componentCount = 1 THEN Resolved("data", file, this)
                ELSE ResolveThrow("EXPECTED_DIRECTORY_GOT_DATA", this)

\* TextEncoder.encode, on the characters the literals use
CharCode(c) == CASE c = "x" -> 120 [] c = "y" -> 121 [] OTHER -> 63

encode(text) == [i \in 1..Len(text) |-> CharCode(text[i])]

\* A MemoryFsLiteral: a directory literal maps names to literals, a data
\* literal holds a text.
LiteralDirectory(contents) == [kind |-> "directory", contents |-> contents, text |-> <<>>]

LiteralText(text) == [kind |-> "data", contents |-> NoContents, text |-> text]

RECURSIVE directoryFromLiteral(_)
directoryFromLiteral(literal) ==
  IF \E comp \in DOMAIN literal.contents : ~isComponent(comp)
  THEN [ok |-> FALSE, dir |-> EmptyDirectory]
  ELSE LET nested == [comp \in DOMAIN literal.contents |->
                        IF literal.contents[comp].kind = "data"
                        THEN [ok |-> TRUE,
                              dir |-> Uint8Array(encode(literal.contents[comp].text))]
                        ELSE directoryFromLiteral(literal.contents[comp])]
       IN  IF \E comp \in DOMAIN nested : ~nested[comp].ok
           THEN [ok |-> FALSE, dir |-> EmptyDirectory]
           ELSE [ok |-> TRUE,
                 dir |-> MemoryDirectory([comp \in DOMAIN nested |-> nested[comp].dir])]

-----------------------------------------------------------------------------
(* MemoryFs. *)

\* the filesystem a constructor returns: its root and its working directory
NewMemoryFs == [root |-> EmptyDirectory, workingDirectory |-> absolute(<<>>).val]

fromLiteral(literal) ==
  LET made == directoryFromLiteral(literal)
  IN  [ok |-> made.ok, fs |-> [NewMemoryFs EXCEPT !.root = made.dir]]

pwd(fs) == fs.workingDirectory

\* a call that returns nothing (undefined)
Returned ==
  [threw |-> FALSE, err |-> "", why |-> "", promise |-> "none", value |-> "undefined"]

\* a call that returns a value
ReturnedValue(v) == [Returned EXCEPT !.value = v]

Threw(e, w) ==
  [threw |-> TRUE, err |-> e, why |-> w, promise |-> "none", value |-> "undefined"]

\* a call on a filesystem: the filesystem it leaves, and its outcome
Left(fs, out) == [fs |-> fs, outcome |-> out]

\* the absolute path a Pathish addresses from the working directory `wd`
targetOf(wd, path) ==
  LET path_ == fromPathish(path) IN
  IF ~path_.ok THEN path_
  ELSE IF isAbsolute(path_.val) THEN path_ ELSE concat(wd, path_.val)

\* cd that assigns the working directory before it looks at what was resolved
cdCommitsFirst(fs, path) ==
  LET target == targetOf(fs.workingDirectory, path) IN
  IF ~target.ok THEN Left(fs, Threw(target.err, target.why))
  ELSE LET resolved == resolveAbsolutePath(fs.root, target.val, FALSE)
           fs1 == [fs EXCEPT !.root = resolved.dir, !.workingDirectory = target.val] IN
       IF ~resolved.ok THEN Left(fs1, Threw(resolved.err, resolved.why))
       ELSE IF resolved.found = "nothing"
            THEN Left(fs1, Threw("MemoryFsError", "NO_SUCH_FILE"))
       ELSE IF resolved.found = "directory" THEN Left(fs1, Returned)
       ELSE Left(fs1, Threw("MemoryFsError", "EXPECTED_DIRECTORY_GOT_DATA"))

\* cd that assigns the path it was given, not the target
cdCommitsPath(fs, path) ==
  LET target == targetOf(fs.workingDirectory, path) IN
  IF ~target.ok THEN Left(fs, Threw(target.err, target.why))
  ELSE LET resolved == resolveAbsolutePath(fs.root, target.val, FALSE)
           fs1 == [fs EXCEPT !.root = resolved.dir] IN
       IF ~resolved.ok THEN Left(fs1, Threw(resolved.err, resolved.why))
       ELSE IF resolved.found = "nothing"
            THEN Left(fs1, Threw("MemoryFsError", "NO_SUCH_FILE"))
       ELSE IF resolved.found = "directory"
            THEN Left([fs1 EXCEPT !.workingDirectory = fromPathish(path).val], Returned)
       ELSE Left(fs1, Threw("MemoryFsError", "EXPECTED_DIRECTORY_GOT_DATA"))

cd(fs, path) ==
  LET path_ == fromPathish(path) IN
  IF ~path_.ok THEN Left(fs, Threw(path_.err, path_.why))
  ELSE LET target == IF isAbsolute(path_.val) THEN path_
                     ELSE concat(fs.workingDirectory, path_.val) IN
       IF ~target.ok THEN Left(fs, Threw(target.err, target.why))
       ELSE LET resolved == resolveAbsolutePath(fs.root, target.val, FALSE)
                fs1 == [fs EXCEPT !.root = resolved.dir] IN
            IF ~resolved.ok THEN Left(fs1, Threw(resolved.err, resolved.why))
            ELSE IF resolved.found = "nothing"
                 THEN Left(fs1, Threw("MemoryFsError", "NO_SUCH_FILE"))
            ELSE IF resolved.found = "directory"
                 THEN Left([fs1 EXCEPT !.workingDirectory = target.val], Returned)
            ELSE Left(fs1, Threw("MemoryFsError", "EXPECTED_DIRECTORY_GOT_DATA"))

NotImplemented == Threw("Error", "Method not implemented.")

lsSync(fs, path) == Left(fs, NotImplemented)

statSync(fs, path) == Left(fs, NotImplemented)

readSync(fs, path) == Left(fs, NotImplemented)

\* writeSync that resolves its target, creating the missing directories above
\* it, before it throws
writeSyncKeepsParents(fs, path, data, mode) ==
  LET target == targetOf(fs.workingDirectory, path) IN
  IF ~target.ok THEN Left(fs, Threw(target.err, target.why))
  ELSE LET resolved == resolveAbsolutePath(fs.root, target.val, TRUE)
       IN  Left([fs EXCEPT !.root = resolved.dir], NotImplemented)

writeSync(fs, path, data, mode) == Left(fs, NotImplemented)

mkdirSync(fs, path, mode) == Left(fs, NotImplemented)

\* removeSync that, given the root, empties it and returns
removeSyncClearsRoot(fs, path) ==
  LET target == targetOf(fs.workingDirectory, path) IN
  IF target.ok /\ getComponentCount(target.val) = 0
  THEN Left([fs EXCEPT !.root = EmptyDirectory], Returned)
  ELSE Left(fs, NotImplemented)

removeSync(fs, path) == Left(fs, NotImplemented)

copySync(fs, src, dst, mode) == Left(fs, NotImplemented)

moveSync(fs, src, dst, mode) == Left(fs, NotImplemented)

\* Promise.resolve(sync), where `sync` is what the call of the synchronous
\* method has done: the call is the argument, so it is made first, and when
\* it throws, the throw leaves the asynchronous method and no promise is made
PromiseResolve(sync) ==
  IF sync.outcome.threw THEN sync
  ELSE Left(sync.fs, [sync.outcome EXCEPT !.promise = "fulfilled"])

ls(fs, path) == PromiseResolve(lsSync(fs, path))

stat(fs, path) == PromiseResolve(statSync(fs, path))

read(fs, path) == PromiseResolve(readSync(fs, path))

write(fs, path, data, mode) == PromiseResolve(writeSync(fs, path, data, mode))

mkdir(fs, path, mode) == PromiseResolve(mkdirSync(fs, path, mode))

remove(fs, path) == PromiseResolve(removeSync(fs, path))

copy(fs, src, dst, mode) == PromiseResolve(copySync(fs, src, dst, mode))

move(fs, src, dst, mode) == PromiseResolve(moveSync(fs, src, dst, mode))

-----------------------------------------------------------------------------
(* FilesystemExt.eq.  statSync, readSync and lsSync are taken to leave the *)
(* two filesystems as they are, so that fileEq has an outcome only.  A     *)
(* throw below a directory is the outcome for the directory.               *)

\* data1 and data2 have the same length and the same bytes
dataEq(data1, data2) ==
  IF Len(data1) # Len(data2) THEN FALSE
  ELSE \A i \in 1..Len(data1) : data1[i] = data2[i]

Bool(b) == ReturnedValue(IF b THEN "true" ELSE "false")

RECURSIVE fileEq(_, _, _, _)
fileEq(fs1, path1, fs2, path2) ==
  LET stat1 == statSync(fs1, PathishPath(path1)).outcome IN
  IF stat1.threw THEN stat1 ELSE
  LET stat2 == statSync(fs2, PathishPath(path2)).outcome IN
  IF stat2.threw THEN stat2
  ELSE IF stat1.value # stat2.value THEN Bool(FALSE)
  ELSE IF stat1.value = "nothing" THEN Bool(TRUE)
  ELSE IF stat1.value = "data"
  THEN LET data1 == readSync(fs1, PathishPath(path1)).outcome IN
       IF data1.threw THEN data1 ELSE
       LET data2 == readSync(fs2, PathishPath(path2)).outcome IN
       IF data2.threw THEN data2 ELSE Bool(dataEq(data1.value, data2.value))
  ELSE LET ls1 == lsSync(fs1, PathishPath(path1)).outcome IN
       IF ls1.threw THEN ls1 ELSE
       LET ls2 == lsSync(fs2, PathishPath(path2)).outcome IN
       IF ls2.threw THEN ls2
       ELSE IF Cardinality(ls1.value) # Cardinality(ls2.value) THEN Bool(FALSE)
       ELSE LET below == [comp \in ls1.value |->
                            fileEq(fs1, concat(path1, relative(<<comp>>, 0).val).val,
                                   fs2, concat(path2, relative(<<comp>>, 0).val).val)]
            IN  IF \E comp \in ls1.value : below[comp].threw
                THEN below[CHOOSE comp \in ls1.value : below[comp].threw]
                ELSE Bool(\A comp \in ls1.value : below[comp].value = "true")

\* FilesystemExt.eq, of the filesystem `fs` it wraps and of `other`
eq(fs, other) == fileEq(fs, absolute(<<>>).val, other, absolute(<<>>).val)

-----------------------------------------------------------------------------
(* The inputs of the Path computations. *)

\* the characters of the components that are rendered
CompChars == {"a", "."}

\* the names of the entries of the trees
Names == {<<"a">>, <<"b">>}

\* the paths the two constructors make from the component lists and step counts
Constructed(lists, steps) ==
  LET made == {relative(cs, n) : cs \in lists, n \in steps}
                \cup {absolute(cs) : cs \in lists}
  IN  {m.val : m \in {r \in made : r.ok}}

\* the candidate components: every short string of the characters, "..."
\* among them, and "", "." and "..", which the constructors refuse
Candidates == SeqsUpTo(CompChars, MaxCompLen) \cup {<<".", ".", ".">>}

\* the paths that are rendered and parsed back
RenderedPaths == Constructed(SeqsUpTo(Candidates, MaxComps), -1..MaxSteps)

\* the paths that are concatenated
CatPaths == Constructed(SeqsUpTo(Names, MaxCatComps), -1..MaxSteps)

\* the paths that are compared
ComparedPaths == Constructed(SeqsUpTo(Names, MaxCmpComps), -1..MaxSteps)

StrChars == {"/", ".", "a", "b"}

Segments == {<<>>, <<".">>, <<".", ".">>} \cup Names

RECURSIVE join(_)
join(segs) ==
  IF Len(segs) = 0 THEN <<>>
  ELSE IF Len(segs) = 1 THEN segs[1]
  ELSE segs[1] \o <<"/">> \o join(Tail(segs))

\* "foo/bar/../baz/qux/../.."
ExampleString ==
  <<"f", "o", "o", "/", "b", "a", "r", "/", ".", ".", "/", "b", "a", "z", "/", "q", "u", "x", "/", ".", ".", "/", ".", ".">>

\* the strings that are parsed: every short string, and every string of a few
\* segments
ParsedStrings ==
  SeqsUpTo(StrChars, MaxStrLen)
    \cup {join(segs) : segs \in SeqsUpTo(Segments, MaxSegs)}
    \cup {ExampleString}

PathInput(kind, a, b, c, str) == [kind |-> kind, a |-> a, b |-> b, c |-> c, str |-> str]

NoResult == Throw("none", "none")

PathOutput(op, str, r1, r2, r3, r4) ==
  [op |-> op, str |-> str, r1 |-> r1, r2 |-> r2, r3 |-> r3, r4 |-> r4,
   bool |-> FALSE, bool2 |-> FALSE]

\* the output of a computation that returns booleans
BoolOutput(op, b1, b2) ==
  [PathOutput(op, <<>>, NoResult, NoResult, NoResult, NoResult)
     EXCEPT !.bool = b1, !.bool2 = b2]

NoOutput == PathOutput("none", <<>>, NoResult, NoResult, NoResult, NoResult)

-----------------------------------------------------------------------------
(* The inputs of the filesystem calls. *)

\* the texts of the data files of a literal
Texts == {<<"x">>}

\* the literals whose children are drawn from `children`
LiteralsOver(children) ==
  {LiteralDirectory(f) : f \in UNION {[D -> children] : D \in SUBSET Names}}

LiteralLeaves == {LiteralText(t) : t \in Texts} \cup {LiteralDirectory(NoContents)}

Literals1 == LiteralsOver(LiteralLeaves)

Literals2 == LiteralsOver(LiteralLeaves \cup Literals1)

Literals3 == LiteralsOver(LiteralLeaves \cup Literals2)

\* the number of entries below a literal
RECURSIVE entryCount(_)
entryCount(literal) ==
  LET names == DOMAIN literal.contents
      RECURSIVE sum(_)
      sum(S) == IF S = {} THEN 0
                ELSE LET n == CHOOSE n \in S : TRUE
                     IN  1 + entryCount(literal.contents[n]) + sum(S \ {n})
  IN  sum(names)

\* the literals of at most MaxEntries entries, nested at most three deep
Literals == {l \in Literals3 : entryCount(l) <= MaxEntries}

\* the filesystems after construction: new MemoryFs(), and fromLiteral of
\* every literal
Constructions ==
  {NewMemoryFs} \cup {m.fs : m \in {r \in {fromLiteral(l) : l \in Literals} : r.ok}}

\* the filesystems another is compared with: new MemoryFs(), and fromLiteral
\* of every literal that is one directory deep
Others ==
  {NewMemoryFs} \cup {m.fs : m \in {r \in {fromLiteral(l) : l \in Literals1} : r.ok}}

\* Pathish arguments: "/", ".", "..", "a", "b", "a/b"
ArgStrings ==
  {<<"/">>, <<".">>, <<".", ".">>, <<"a">>, <<"b">>, <<"a", "/", "b">>}

PathArgs == {PathishString(s) : s \in ArgStrings}

\* "/a/b", "a/b/..", "/a/.."
LongCdStrings ==
  {<<"/", "a", "/", "b">>, <<"a", "/", "b", "/", ".", ".">>, <<"/", "a", "/", ".", ".">>}

\* what cd is given: every string of a few segments, some longer strings, and
\* every path that is concatenated
CdArgs ==
  {PathishString(join(segs)) : segs \in SeqsUpTo(Segments, MaxCdSegs)}
    \cup {PathishString(s) : s \in LongCdStrings}
    \cup {PathishPath(p) : p \in CatPaths}

\* what the asynchronous methods and the reading methods are given: "/", "a"
\* and "a/b"
AsyncArgs == {PathishString(s) : s \in {<<"/">>, <<"a">>, <<"a", "/", "b">>}}

\* the bytes written: those of "x" and of "y"
DataArgs == {encode(<<"x">>), encode(<<"y">>)}

\* a mode argument; "undefined" is the argument left out
Modes == {"timid", "placid", "assertive", "undefined"}

NoArg == PathishString(<<>>)

Call(op, path, dst, data, mode) ==
  [op |-> op, path |-> path, dst |-> dst, data |-> data, mode |-> mode,
   other |-> NewMemoryFs]

\* the call of eq with another filesystem
EqCall(other) == [Call("eq", NoArg, NoArg, <<>>, "undefined") EXCEPT !.other = other]

NoCall == Call("none", NoArg, NoArg, <<>>, "undefined")

\* no call of resolveAbsolutePath
NoResolution ==
  [path |-> NoPath, createParentDirs |-> FALSE, this |-> EmptyDirectory,
   done |-> FALSE, result |-> Resolved("nothing", EmptyDirectory, EmptyDirectory)]

\* the paths that are resolved
ResolvedPaths == Constructed(SeqsUpTo(Names, MaxResolveComps), {Absolute})

\* no step on the Path objects
NoStep == [op |-> "none", threw |-> FALSE, array |-> 0, steps |-> 0]

\* no array and no Path object
NoObjects == /\ arrays = <<>> /\ paths = <<>> /\ last = NoStep

-----------------------------------------------------------------------------
(* The Path computations as a state machine: an input is drawn, and one    *)
(* computation is applied to it.                                           *)

PathInit ==
  /\ pin \in {PathInput("path", p, NoPath, NoPath, <<>>) : p \in RenderedPaths}
             \cup {PathInput("paths", a, b, c, <<>>) : a \in CatPaths, b \in CatPaths, c \in CatPaths}
             \cup {PathInput("string", NoPath, NoPath, NoPath, s) : s \in ParsedStrings}
             \cup {PathInput("pair", a, b, NoPath, <<>>) : a \in ComparedPaths, b \in ComparedPaths}
  /\ pout = NoOutput
  /\ resolution = NoResolution
  /\ NoObjects
  /\ root = NewMemoryFs.root
  /\ workingDirectory = NewMemoryFs.workingDirectory
  /\ call = NoCall
  /\ outcome = Returned
  /\ before = NewMemoryFs

\* parsePath(p.toString())
RoundTrip ==
  /\ pin.kind = "path" /\ pout.op = "none"
  /\ pout' = PathOutput("roundTrip", toString(pin.a), parsePath(toString(pin.a)),
                        NoResult, NoResult, NoResult)
  /\ UNCHANGED <<pin, fsVars, resolution, objVars>>

\* a.concat(b)
Concat ==
  /\ pin.kind = "paths" /\ pout.op = "none"
  /\ pout' = PathOutput("concat", <<>>, concat(pin.a, pin.b), NoResult, NoResult, NoResult)
  /\ UNCHANGED <<pin, fsVars, resolution, objVars>>

\* x.concat(y) for results: a throw of x propagates
concatResult(x, y) == IF ~x.ok THEN x ELSE IF ~y.ok THEN y ELSE concat(x.val, y.val)

\* (a.concat(b)).concat(c) and a.concat(b.concat(c))
ConcatTwice ==
  /\ pin.kind = "paths" /\ pout.op = "none"
  /\ LET ab == concat(pin.a, pin.b)
         bc == concat(pin.b, pin.c)
     IN  pout' = PathOutput("concatTwice", <<>>, ab, concatResult(ab, Ok(pin.c)),
                            bc, concatResult(Ok(pin.a), bc))
  /\ UNCHANGED <<pin, fsVars, resolution, objVars>>

\* parsePath(str)
Parse ==
  /\ pin.kind = "string" /\ pout.op = "none"
  /\ pout' = PathOutput("parse", pin.str, parsePath(pin.str), NoResult, NoResult, NoResult)
  /\ UNCHANGED <<pin, fsVars, resolution, objVars>>

\* a.equals(b) and b.equals(a)
Equals ==
  /\ pin.kind = "pair" /\ pout.op = "none"
  /\ pout' = BoolOutput("equals", equals(pin.a, pin.b), equals(pin.b, pin.a))
  /\ UNCHANGED <<pin, fsVars, resolution, objVars>>

\* a.prefixes(b) and b.isPrefixedBy(a)
Prefixes ==
  /\ pin.kind = "pair" /\ pout.op = "none"
  /\ pout' = BoolOutput("prefixes", prefixes(pin.a, pin.b), isPrefixedBy(pin.b, pin.a))
  /\ UNCHANGED <<pin, fsVars, resolution, objVars>>

\* parsePath(str).concat(".")
ConcatDot ==
  /\ pin.kind = "string" /\ pout.op = "none"
  /\ pout' = PathOutput("concatDot", pin.str, parsePath(pin.str),
                        concatResult(parsePath(pin.str), fromPathish(PathishString(<<".">>))),
                        NoResult, NoResult)
  /\ UNCHANGED <<pin, fsVars, resolution, objVars>>

PathNext ==
  RoundTrip \/ Concat \/ ConcatTwice \/ Parse \/ Equals \/ Prefixes \/ ConcatDot

PathSpec == PathInit /\ [][PathNext]_vars

-----------------------------------------------------------------------------
(* MemoryDirectory.resolveAbsolutePath as a state machine: a tree, a path  *)
(* and createParentDirs are drawn, and the call is made.                   *)

ResolveInit ==
  /\ pin = PathInput("none", NoPath, NoPath, NoPath, <<>>)
  /\ pout = NoOutput
  /\ \E fs \in Constructions, path \in ResolvedPaths, createParentDirs \in BOOLEAN :
       resolution = [NoResolution EXCEPT !.path = path, !.this = fs.root,
                                         !.createParentDirs = createParentDirs]
  /\ NoObjects
  /\ root = NewMemoryFs.root
  /\ workingDirectory = NewMemoryFs.workingDirectory
  /\ call = NoCall
  /\ outcome = Returned
  /\ before = NewMemoryFs

\* this.resolveAbsolutePath(path, createParentDirs)
ResolveAbsolutePath ==
  /\ ~resolution.done
  /\ resolution' =
       [resolution EXCEPT !.done = TRUE,
                          !.result = resolveAbsolutePath(resolution.this, resolution.path,
                                                         resolution.createParentDirs)]
  /\ UNCHANGED <<pathVars, fsVars, objVars>>

ResolveNext == ResolveAbsolutePath

ResolveSpec == ResolveInit /\ [][ResolveNext]_vars

-----------------------------------------------------------------------------
(* The Path objects as a state machine: the caller makes arrays and Paths, *)
(* calls the methods of the Paths, and changes the arrays it knows.        *)

\* the components the caller puts into arrays: a, and "..", which is none
ObjComps == {<<"a">>, <<".", ".">>}

ObjInit ==
  /\ pin = PathInput("none", NoPath, NoPath, NoPath, <<>>)
  /\ pout = NoOutput
  /\ resolution = NoResolution
  /\ NoObjects
  /\ root = NewMemoryFs.root
  /\ workingDirectory = NewMemoryFs.workingDirectory
  /\ call = NoCall
  /\ outcome = Returned
  /\ before = NewMemoryFs

\* the step `op` leaves the heap `heap`
Stepped(op, heap, array, steps) ==
  /\ Len(heap.arrays) <= MaxArrays
  /\ Len(heap.paths) <= MaxPathObjects
  /\ \A a \in 1..Len(heap.arrays) : Len(heap.arrays[a].elems) <= MaxArrayLen
  /\ arrays' = heap.arrays
  /\ paths' = heap.paths
  /\ last' = [op |-> op, threw |-> heap.threw, array |-> array, steps |-> steps]
  /\ UNCHANGED <<pathVars, fsVars, resolution>>

\* arr = [...]; Path.relative(arr, parentSteps)
NewRelative == \E elems \in SeqsUpTo(ObjComps, MaxArrayLen), parentSteps \in -1..1 :
  /\ Len(arrays) < MaxArrays
  /\ Stepped("relative",
          relativeObject(Append(arrays, Array(elems, TRUE, FALSE)), paths,
                         Len(arrays) + 1, parentSteps),
          Len(arrays) + 1, parentSteps)

\* arr = [...]; Path.absolute(arr)
NewAbsolute == \E elems \in SeqsUpTo(ObjComps, MaxArrayLen) :
  /\ Len(arrays) < MaxArrays
  /\ Stepped("absolute",
          absoluteObject(Append(arrays, Array(elems, TRUE, FALSE)), paths,
                         Len(arrays) + 1),
          Len(arrays) + 1, 0)

ConcatObject == \E p \in 1..Len(paths), q \in 1..Len(paths) :
  /\ Len(arrays) < MaxArrays
  /\ Stepped("concat", concatObject(arrays, paths, p, q), 0, 0)

PopFrontObject == \E p \in 1..Len(paths) :
  /\ Len(arrays) < MaxArrays
  /\ Stepped("popFront", popFrontObject(arrays, paths, p), 0, 0)

GetComponents == \E p \in 1..Len(paths) :
  /\ Len(arrays) < MaxArrays
  /\ LET got == getComponents(arrays, paths, p)
     IN  Stepped("getComponents", got, got.made, 0)

\* equals, prefixes, isPrefixedBy, toString and getIthComponent read the
\* relativity and the components, and write nothing
Readers == {"equals", "prefixes", "isPrefixedBy", "toString", "getIthComponent"}

ReadObject == \E op \in Readers :
  /\ Len(paths) > 0
  /\ Stepped(op, Heap(arrays, paths, FALSE, 0), 0, 0)

\* the arrays the caller knows
Known == {a \in 1..Len(arrays) : arrays[a].passed \/ arrays[a].returned}

\* arr.push(c)
Push == \E a \in Known, c \in ObjComps :
  /\ Len(arrays[a].elems) < MaxArrayLen
  /\ Stepped("mutate", Heap([arrays EXCEPT ![a].elems = Append(@, c)], paths, FALSE, 0), a, 0)

\* arr.pop()
Pop == \E a \in Known :
  /\ Len(arrays[a].elems) > 0
  /\ Stepped("mutate", Heap([arrays EXCEPT ![a].elems = Front(@)], paths, FALSE, 0), a, 0)

\* arr[i] = c
Assign == \E a \in Known, c \in ObjComps :
  \E i \in 1..Len(arrays[a].elems) :
    Stepped("mutate", Heap([arrays EXCEPT ![a].elems[i] = c], paths, FALSE, 0), a, 0)

ObjNext ==
  \/ NewRelative \/ NewAbsolute \/ ConcatObject \/ PopFrontObject \/ GetComponents
  \/ ReadObject \/ Push \/ Pop \/ Assign

ObjSpec == ObjInit /\ [][ObjNext]_vars

-----------------------------------------------------------------------------
(* The filesystem as a state machine: a filesystem is constructed, and     *)
(* calls are made on it one after the other.                               *)

Fs == [root |-> root, workingDirectory |-> workingDirectory]

Init ==
  /\ pin = PathInput("none", NoPath, NoPath, NoPath, <<>>)
  /\ pout = NoOutput
  /\ resolution = NoResolution
  /\ NoObjects
  /\ \E fs \in Constructions :
       /\ root = fs.root
       /\ workingDirectory = fs.workingDirectory
       /\ before = fs
  /\ call = NoCall
  /\ outcome = Returned

\* the call c is made, no other call being under way, and leaves `left`
Made(c, left) ==
  /\ call.op = "none"
  /\ call' = c
  /\ before' = Fs
  /\ root' = left.fs.root
  /\ workingDirectory' = left.fs.workingDirectory
  /\ outcome' = left.outcome
  /\ UNCHANGED <<pathVars, resolution, objVars>>

Cd == \E path \in CdArgs :
  Made(Call("cd", path, NoArg, <<>>, "undefined"), cd(Fs, path))

WriteSync == \E path \in PathArgs, data \in DataArgs, mode \in Modes :
  Made(Call("writeSync", path, NoArg, data, mode), writeSync(Fs, path, data, mode))

MkdirSync == \E path \in PathArgs, mode \in Modes :
  Made(Call("mkdirSync", path, NoArg, <<>>, mode), mkdirSync(Fs, path, mode))

RemoveSync == \E path \in PathArgs :
  Made(Call("removeSync", path, NoArg, <<>>, "undefined"), removeSync(Fs, path))

CopySync == \E src \in PathArgs, dst \in PathArgs, mode \in Modes :
  Made(Call("copySync", src, dst, <<>>, mode), copySync(Fs, src, dst, mode))

MoveSync == \E src \in PathArgs, dst \in PathArgs, mode \in Modes :
  Made(Call("moveSync", src, dst, <<>>, mode), moveSync(Fs, src, dst, mode))

LsSync == \E path \in PathArgs :
  Made(Call("lsSync", path, NoArg, <<>>, "undefined"), lsSync(Fs, path))

StatSync == \E path \in PathArgs :
  Made(Call("statSync", path, NoArg, <<>>, "undefined"), statSync(Fs, path))

ReadSync == \E path \in PathArgs :
  Made(Call("readSync", path, NoArg, <<>>, "undefined"), readSync(Fs, path))

Ls == \E path \in AsyncArgs :
  Made(Call("ls", path, NoArg, <<>>, "undefined"), ls(Fs, path))

Stat == \E path \in AsyncArgs :
  Made(Call("stat", path, NoArg, <<>>, "undefined"), stat(Fs, path))

Read == \E path \in AsyncArgs :
  Made(Call("read", path, NoArg, <<>>, "undefined"), read(Fs, path))

Write == \E path \in AsyncArgs, data \in DataArgs, mode \in Modes :
  Made(Call("write", path, NoArg, data, mode), write(Fs, path, data, mode))

Mkdir == \E path \in AsyncArgs, mode \in Modes :
  Made(Call("mkdir", path, NoArg, <<>>, mode), mkdir(Fs, path, mode))

Remove == \E path \in AsyncArgs :
  Made(Call("remove", path, NoArg, <<>>, "undefined"), remove(Fs, path))

Copy == \E src \in AsyncArgs, dst \in AsyncArgs, mode \in Modes :
  Made(Call("copy", src, dst, <<>>, mode), copy(Fs, src, dst, mode))

Move == \E src \in AsyncArgs, dst \in AsyncArgs, mode \in Modes :
  Made(Call("move", src, dst, <<>>, mode), move(Fs, src, dst, mode))

\* new FilesystemExt(this).eq(other)
Eq == \E other \in Others :
  Made(EqCall(other), Left(Fs, eq(Fs, other)))

\* the caller takes the outcome of the call; the next call can be made
Return ==
  /\ call.op # "none"
  /\ call' = NoCall
  /\ outcome' = Returned
  /\ before' = Fs
  /\ UNCHANGED <<root, workingDirectory, pathVars, resolution, objVars>>

Next ==
  \/ Cd \/ WriteSync \/ MkdirSync \/ RemoveSync \/ CopySync \/ MoveSync
  \/ LsSync \/ StatSync \/ ReadSync
  \/ Ls \/ Stat \/ Read \/ Write \/ Mkdir \/ Remove \/ Copy \/ Move
  \/ Eq
  \/ Return

Spec == Init /\ [][Next]_vars

-----------------------------------------------------------------------------
(* Properties of Path, checked under PathSpec. *)

Max(m, n) == IF m >= n THEN m ELSE n

\* C1: rendering a constructed path and parsing the rendering succeeds and
\* gives the path back: the same relativity and the same components.
RoundTripGivesPathBack ==
  pout.op = "roundTrip" =>
    /\ pout.r1.ok
    /\ pout.r1.val = pin.a
    /\ equals(pout.r1.val, pin.a)

\* a relative path of two steps and two components, one of them "...", has
\* been rendered and parsed
RoundTripWitness ==
  /\ pout.op = "roundTrip"
  /\ pin.a.relativity = 2
  /\ Len(pin.a.components) = 2
  /\ pin.a.components[1] = <<".", ".", ".">>
  /\ pout.str = <<".", ".", "/", ".", ".", "/", ".", ".", ".", "/">> \o pin.a.components[2]

SegmentsOf(str) == IF startsWith(str, "/") THEN Tail(split(str)) ELSE split(str)

\* the normalisation of segments, left to right: the steps and the components
RECURSIVE Normalised(_)
Normalised(segs) ==
  IF Len(segs) = 0 THEN [steps |-> 0, components |-> <<>>]
  ELSE LET sofar == Normalised(Front(segs))
           seg == Last(segs)
       IN  IF seg = <<".">> THEN sofar
           ELSE IF seg = <<".", ".">>
           THEN IF Len(sofar.components) > 0
                THEN [sofar EXCEPT !.components = Front(sofar.components)]
                ELSE [sofar EXCEPT !.steps = sofar.steps + 1]
           ELSE [sofar EXCEPT !.components = Append(sofar.components, seg)]

\* C3: a string the parser accepts parses to the left-to-right normalisation
\* of its segments, absolute iff the string starts with a slash; "/" parses to
\* the absolute root, and "foo/bar/../baz/qux/../.." to the relative path foo.
ParseIsNormalisation ==
  pout.op = "parse" =>
    /\ pout.r1.ok =>
         /\ isAbsolute(pout.r1.val) <=> startsWith(pin.str, "/")
         /\ IF pin.str = <<"/">>
            THEN pout.r1.val = [relativity |-> Absolute, components |-> <<>>]
            ELSE /\ pout.r1.val.components = Normalised(SegmentsOf(pin.str)).components
                 /\ getParentSteps(pout.r1.val) = Normalised(SegmentsOf(pin.str)).steps
    /\ pin.str = <<"/">> => pout.r1.ok
    /\ pin.str = ExampleString =>
         pout.r1 = Ok([relativity |-> 0, components |-> <<<<"f", "o", "o">>>>])

\* "a/../..", whose `..` segments remove a component and then step above the
\* start, has been parsed
ParseWitness ==
  /\ pout.op = "parse"
  /\ pin.str = <<"a", "/", ".", ".", "/", ".", ".">>
  /\ pout.r1.ok
  /\ pout.r1.val.relativity = 1

\* C4: when neither (a.concat(b)).concat(c) nor a.concat(b.concat(c)) fails
\* in any step, the two are the same path.
ConcatIsAssociative ==
  (pout.op = "concatTwice" /\ pout.r1.ok /\ pout.r2.ok /\ pout.r3.ok /\ pout.r4.ok) =>
    /\ pout.r2.val = pout.r4.val
    /\ equals(pout.r2.val, pout.r4.val)

\* both groupings have succeeded where c steps above the components of b and
\* removes one of a
AssociativeWitness ==
  /\ pout.op = "concatTwice"
  /\ pout.r2.ok /\ pout.r4.ok
  /\ Len(pin.a.components) = 1 /\ Len(pin.b.components) = 1
  /\ pin.b.relativity = 0
  /\ pin.c.relativity = 2 /\ Len(pin.c.components) = 1

\* two successive slashes somewhere in the string
SuccessiveSlashes(str) ==
  \E i \in 1..(Len(str) - 1) : str[i] = "/" /\ str[i + 1] = "/"

\* an absolute string with a `..` segment where no component is buffered
StepsAboveRoot(str) ==
  /\ startsWith(str, "/")
  /\ \E k \in 1..Len(SegmentsOf(str)) :
       /\ SegmentsOf(str)[k] = <<".", ".">>
       /\ Normalised(SubSeq(SegmentsOf(str), 1, k - 1)).components = <<>>

\* C18: parsePath throws a ParseSimpleFsPathError carrying the input string
\* on the empty string, on a string with successive slashes, and on an
\* absolute string in which a `..` segment finds no component buffered.
ParseRejects ==
  (/\ pout.op = "parse"
   /\ pin.str = <<>> \/ SuccessiveSlashes(pin.str) \/ StepsAboveRoot(pin.str)) =>
    /\ ~pout.r1.ok
    /\ pout.r1.err = "ParseSimpleFsPathError"
    /\ pout.r1.stringToParse = pin.str

\* "/a/../.." has been rejected for stepping above the root
ParseRejectsWitness ==
  /\ pout.op = "parse"
  /\ pin.str = <<"/", "a", "/", ".", ".", "/", ".", ".">>
  /\ ~pout.r1.ok
  /\ pout.r1.why = "RootOverflow"
  /\ pout.r1.stringToParse = pin.str

\* both absolute or both relative
SameClass(a, b) == isAbsolute(a) <=> isAbsolute(b)

\* C19 as stated: a.equals(b) iff a and b are both absolute or both relative,
\* however many parent steps they have, and have the same components in the
\* same order.
EqualsIsClassAndComponents ==
  pout.op = "equals" =>
    (pout.bool <=> (SameClass(pin.a, pin.b) /\ pin.a.components = pin.b.components))

\* C19 amended: a.equals(b) iff a and b are both absolute, or both relative
\* with the same number of parent steps, and have the same components in the
\* same order; b.equals(a) is the same.
EqualsIsStepsAndComponents ==
  pout.op = "equals" =>
    /\ pout.bool <=> (/\ SameClass(pin.a, pin.b)
                      /\ getParentSteps(pin.a) = getParentSteps(pin.b)
                      /\ pin.a.components = pin.b.components)
    /\ pout.bool2 = pout.bool

\* two relative paths of the same two components, one with a parent step and
\* one without, have been compared and are not equal
EqualsWitness ==
  /\ pout.op = "equals"
  /\ pin.a.relativity = 1 /\ pin.b.relativity = 0
  /\ Len(pin.a.components) = 2 /\ pin.a.components = pin.b.components
  /\ ~pout.bool

\* the components of a are, index by index, the first components of b
IsPrefix(a, b) ==
  /\ Len(a.components) <= Len(b.components)
  /\ \A i \in 1..Len(a.components) : a.components[i] = b.components[i]

\* C20 as stated: a.prefixes(b), and b.isPrefixedBy(a), iff a and b are both
\* absolute or both relative, however many parent steps they have, and the
\* components of a are a prefix of those of b.
PrefixesIsClassAndPrefix ==
  pout.op = "prefixes" =>
    /\ pout.bool <=> (SameClass(pin.a, pin.b) /\ IsPrefix(pin.a, pin.b))
    /\ pout.bool2 = pout.bool

\* C20 amended: a.prefixes(b), and b.isPrefixedBy(a), iff a and b are both
\* absolute, or both relative with the same number of parent steps, and the
\* components of a are a prefix of those of b.
PrefixesIsStepsAndPrefix ==
  pout.op = "prefixes" =>
    /\ pout.bool <=> (/\ SameClass(pin.a, pin.b)
                      /\ getParentSteps(pin.a) = getParentSteps(pin.b)
                      /\ IsPrefix(pin.a, pin.b))
    /\ pout.bool2 = pout.bool

\* a path of one parent step and one component has been found to prefix a
\* path of one parent step and two components
PrefixesWitness ==
  /\ pout.op = "prefixes"
  /\ pin.a.relativity = 1 /\ pin.b.relativity = 1
  /\ Len(pin.a.components) = 1 /\ Len(pin.b.components) = 2
  /\ pin.b.components[1] = pin.a.components[1]
  /\ pout.bool /\ pout.bool2

\* n times ".."
StepsBlock(n) == [i \in 1..n |-> <<".", ".">>]

\* the rendering of a path as it is documented
Rendering(p) ==
  IF isAbsolute(p) THEN <<"/">> \o join(p.components)
  ELSE IF p.relativity = 0 /\ Len(p.components) = 0 THEN <<".">>
  ELSE join(StepsBlock(p.relativity) \o p.components)

\* C21: toString renders an absolute path as "/" followed by its components
\* joined by "/" (the root as "/"), a relative path of no steps and no
\* components as ".", and any other relative path as its ".." steps and then
\* its components, all joined by "/", with no "./" in front.
ToStringIsRendering ==
  pout.op = "roundTrip" =>
    /\ pout.str = Rendering(pin.a)
    /\ (~isAbsolute(pin.a) /\ pin.a.relativity = 0 /\ Len(pin.a.components) > 0) =>
         pout.str[1] = pin.a.components[1][1]

\* a relative path of no steps and two components, the first starting with a
\* dot, has been rendered
ToStringWitness ==
  /\ pout.op = "roundTrip"
  /\ pin.a.relativity = 0
  /\ Len(pin.a.components) = 2
  /\ pin.a.components[1] = <<".", "a">>
  /\ pout.str = <<".", "a", "/">> \o pin.a.components[2]

\* C26: for every string the parser accepts, parsePath(s).concat(".")
\* succeeds and is the path parsePath(s), absolute or relative.
ConcatDotIsIdentity ==
  (pout.op = "concatDot" /\ pout.r1.ok) =>
    /\ pout.r2.ok
    /\ pout.r2.val = pout.r1.val
    /\ equals(pout.r2.val, pout.r1.val)

\* "." has been appended to the parse of "/a/b"
ConcatDotWitness ==
  /\ pout.op = "concatDot"
  /\ pout.str = <<"/", "a", "/", "b">>
  /\ pout.r1.ok /\ isAbsolute(pout.r1.val)
  /\ pout.r2.ok
  /\ pout.r2.val.components = <<<<"a">>, <<"b">>>>

-----------------------------------------------------------------------------
(* Properties of MemoryFs, checked under Spec.  `before` is the filesystem *)
(* as the call under way found it.                                         *)

Nothing == [kind |-> "nothing", contents |-> NoContents, bytes |-> <<>>]

Blocked == [kind |-> "blocked", contents |-> NoContents, bytes |-> <<>>]

\* what is at the components below an entry: the entry there, Nothing where a
\* name is missing, Blocked where a data file stands in the way
RECURSIVE entryAt(_, _)
entryAt(entry, comps) ==
  IF Len(comps) = 0 THEN entry
  ELSE IF entry.kind # "directory" THEN Blocked
  ELSE IF Head(comps) \notin DOMAIN entry.contents THEN Nothing
  ELSE entryAt(entry.contents[Head(comps)], Tail(comps))

\* what the Pathish addressed when the call was made
targetBefore(path) == targetOf(before.workingDirectory, path)

\* what was at the Pathish when the call was made; Blocked when it addresses
\* no place
foundBefore(path) ==
  IF targetBefore(path).ok THEN entryAt(before.root, targetBefore(path).val.components)
  ELSE Blocked

\* what is at the Pathish now, addressed as when the call was made
foundNow(path) ==
  IF targetBefore(path).ok THEN entryAt(root, targetBefore(path).val.components)
  ELSE Blocked

addressesRoot(path) ==
  targetBefore(path).ok /\ getComponentCount(targetBefore(path).val) = 0

occupiedBefore(path) ==
  ~addressesRoot(path) /\ foundBefore(path).kind \in {"directory", "data"}

Mutating == {"writeSync", "mkdirSync", "removeSync", "copySync", "moveSync"}

\* C5: a writeSync to a place other than the root, with nothing in the way,
\* follows the mode policy: where nothing was, it returns and the data is
\* there; where something was, timid (and no mode) throws and changes
\* nothing, placid returns and changes nothing, assertive returns and the data
\* is there.
WriteFollowsModePolicy ==
  (call.op = "writeSync" /\ ~addressesRoot(call.path)
     /\ foundBefore(call.path).kind # "blocked") =>
    IF foundBefore(call.path).kind = "nothing" \/ call.mode = "assertive"
    THEN ~outcome.threw /\ foundNow(call.path) = Uint8Array(call.data)
    ELSE IF call.mode = "placid"
    THEN ~outcome.threw /\ root = before.root
    ELSE outcome.threw /\ root = before.root

\* the destination of a call that takes a mode
destination == IF call.op \in {"copySync", "moveSync"} THEN call.dst ELSE call.path

\* C6: write, mkdir, copy (of something there is) and move (of something
\* there is) in mode placid onto an occupied destination return without error
\* and leave the tree as it was; a move leaves src in place.
PlacidIsNoOpOnConflict ==
  (/\ call.op \in {"writeSync", "mkdirSync", "copySync", "moveSync"}
   /\ call.mode = "placid"
   /\ occupiedBefore(destination)
   /\ call.op \in {"copySync", "moveSync"} => occupiedBefore(call.path)) =>
    /\ ~outcome.threw
    /\ root = before.root
    /\ call.op = "moveSync" => foundNow(call.path) = foundBefore(call.path)

\* C7, as the deep clone cases of the tests exercise it: an assertive copySync
\* of something there is, to a place other than the root and not below src
\* itself, returns, and then the entry at dst equals the one that was at src,
\* and src is as it was.
CopyIsDeepClone ==
  (/\ call.op = "copySync" /\ call.mode = "assertive"
   /\ occupiedBefore(call.path)
   /\ ~addressesRoot(call.dst) /\ foundBefore(call.dst).kind # "blocked"
   /\ targetBefore(call.dst).val.components # targetBefore(call.path).val.components) =>
    /\ ~outcome.threw
    /\ foundNow(call.dst) = foundBefore(call.path)
    /\ foundNow(call.path) = foundBefore(call.path)

\* C8: when a mutating call has thrown, the tree is the tree before the call:
\* nothing was created above the destination, and src of a move is in place.
FailureChangesNothing ==
  (call.op \in Mutating /\ outcome.threw) =>
    /\ root = before.root
    /\ foundNow(destination) = foundBefore(destination)
    /\ call.op = "moveSync" => foundNow(call.path) = foundBefore(call.path)

\* a write to a/b, relative to the root, where there is no a, has thrown, and
\* there is still no a
FailureWitness ==
  /\ call.op = "writeSync" /\ outcome.threw
  /\ call.path = PathishString(<<"a", "/", "b">>)
  /\ before.workingDirectory.components = <<>>
  /\ <<"a">> \notin DOMAIN before.root.contents
  /\ <<"a">> \notin DOMAIN root.contents

\* the call under way is a mutation aimed at the root: a remove, write or
\* mkdir of it, a copy or move onto it, or a move of it
RootTargeted ==
  CASE call.op \in {"removeSync", "writeSync", "mkdirSync"} -> addressesRoot(call.path)
    [] call.op = "copySync" -> addressesRoot(call.dst)
    [] call.op = "moveSync" -> addressesRoot(call.path) \/ addressesRoot(call.dst)
    [] OTHER -> FALSE

\* C9: every mutation aimed at the root, in every mode and however the root
\* is addressed, throws and leaves the tree as it was; the root is always a
\* directory.
RootIsProtected ==
  /\ root.kind = "directory"
  /\ RootTargeted => (outcome.threw /\ root = before.root)

\* a remove of "..", made in /a of a tree with a file b as well, has thrown
RootWitness ==
  /\ call.op = "removeSync" /\ outcome.threw
  /\ call.path = PathishString(<<".", ".">>)
  /\ before.workingDirectory.components = <<<<"a">>>>
  /\ DOMAIN root.contents = {<<"a">>, <<"b">>}
  /\ root.contents[<<"b">>].kind = "data"

\* C10: cd(path) with target path, or pwd.concat(path) for a relative path:
\* when the target is a directory of the tree, cd returns and pwd() is the
\* target; in every other case cd throws and pwd() is what it was.  The tree
\* is the same either way.
CdCommitsOnlyDirectories ==
  call.op = "cd" =>
    /\ root = before.root
    /\ IF foundBefore(call.path).kind = "directory"
       THEN ~outcome.threw /\ pwd(Fs) = targetBefore(call.path).val
       ELSE outcome.threw /\ pwd(Fs) = pwd(before)

\* cd("b") made in /a has returned, and the working directory is /a/b
CdWitness ==
  /\ call.op = "cd" /\ ~outcome.threw
  /\ call.path = PathishString(<<"b">>)
  /\ pwd(before) = absolute(<<<<"a">>>>).val
  /\ pwd(Fs) = absolute(<<<<"a">>, <<"b">>>>).val

Asynchronous == {"ls", "stat", "read", "write", "mkdir", "remove", "copy", "move"}

\* what the synchronous method of the asynchronous call under way does, on
\* the filesystem as the call found it
SyncOutcome ==
  CASE call.op = "ls" -> lsSync(before, call.path).outcome
    [] call.op = "stat" -> statSync(before, call.path).outcome
    [] call.op = "read" -> readSync(before, call.path).outcome
    [] call.op = "write" -> writeSync(before, call.path, call.data, call.mode).outcome
    [] call.op = "mkdir" -> mkdirSync(before, call.path, call.mode).outcome
    [] call.op = "remove" -> removeSync(before, call.path).outcome
    [] call.op = "copy" -> copySync(before, call.path, call.dst, call.mode).outcome
    [] call.op = "move" -> moveSync(before, call.path, call.dst, call.mode).outcome
    [] OTHER -> Returned

\* C11: an asynchronous method never throws: it returns a promise, fulfilled
\* with the value the synchronous method returns, or rejected with the error
\* the synchronous method throws.
AsyncRejectsInsteadOfThrowing ==
  call.op \in Asynchronous =>
    /\ ~outcome.threw
    /\ IF SyncOutcome.threw
       THEN /\ outcome.promise = "rejected"
            /\ outcome.err = SyncOutcome.err /\ outcome.why = SyncOutcome.why
       ELSE /\ outcome.promise = "fulfilled"
            /\ outcome.value = SyncOutcome.value

\* neither of the two places is the other or below the other
Apart(src, dst) ==
  /\ ~IsPrefix(targetBefore(src).val, targetBefore(dst).val)
  /\ ~IsPrefix(targetBefore(dst).val, targetBefore(src).val)

\* C12: a placid moveSync of something there is onto an occupied dst, the two
\* apart from each other, returns, leaves the entry at dst as it was and
\* leaves nothing at src.
PlacidMoveRemovesSrc ==
  (/\ call.op = "moveSync" /\ call.mode = "placid"
   /\ occupiedBefore(call.path) /\ occupiedBefore(call.dst)
   /\ Apart(call.path, call.dst)) =>
    /\ ~outcome.threw
    /\ foundNow(call.dst) = foundBefore(call.dst)
    /\ foundNow(call.path) = Nothing

\* the directory without what is at the components below it
RECURSIVE removeAt(_, _)
removeAt(dir, comps) ==
  IF Len(comps) = 1
  THEN MemoryDirectory([n \in DOMAIN dir.contents \ {comps[1]} |-> dir.contents[n]])
  ELSE contentsSet(dir, Head(comps), removeAt(dir.contents[Head(comps)], Tail(comps)))

\* the directory with the entry at the components below it, in fresh
\* directories where there were none
RECURSIVE placeAt(_, _, _)
placeAt(dir, comps, entry) ==
  IF Len(comps) = 1 THEN contentsSet(dir, comps[1], entry)
  ELSE contentsSet(dir, Head(comps),
                   placeAt(IF Head(comps) \in DOMAIN dir.contents
                           THEN dir.contents[Head(comps)] ELSE EmptyDirectory,
                           Tail(comps), entry))

\* C13: removeSync of an entry other than the root returns, and the tree is
\* the tree before without that entry and what is below it; removeSync of
\* nothing throws and the tree is the tree before.
RemoveDeletesTheEntry ==
  (call.op = "removeSync" /\ ~addressesRoot(call.path)
     /\ foundBefore(call.path).kind # "blocked") =>
    IF foundBefore(call.path).kind = "nothing"
    THEN outcome.threw /\ root = before.root
    ELSE /\ ~outcome.threw
         /\ root = removeAt(before.root, targetBefore(call.path).val.components)

\* C14: a mkdirSync to a place other than the root, with nothing in the way:
\* where nothing was, it returns and an empty directory is there; where
\* something was, timid (and no mode) throws and changes nothing, placid
\* returns and changes nothing, assertive returns and an empty directory is
\* there.
MkdirFollowsModePolicy ==
  (call.op = "mkdirSync" /\ ~addressesRoot(call.path)
     /\ foundBefore(call.path).kind # "blocked") =>
    IF foundBefore(call.path).kind = "nothing" \/ call.mode = "assertive"
    THEN ~outcome.threw /\ foundNow(call.path) = EmptyDirectory
    ELSE IF call.mode = "placid"
    THEN ~outcome.threw /\ root = before.root
    ELSE outcome.threw /\ root = before.root

\* the directory that is to hold the Pathish is missing
parentMissing(path) ==
  /\ targetBefore(path).ok
  /\ getComponentCount(targetBefore(path).val) > 1
  /\ entryAt(before.root, Front(targetBefore(path).val.components)) = Nothing

\* what the call under way is to put at its destination
placed ==
  CASE call.op = "writeSync" -> Uint8Array(call.data)
    [] call.op = "mkdirSync" -> EmptyDirectory
    [] OTHER -> foundBefore(call.path)

\* C15: a writeSync, a mkdirSync, and a copySync or moveSync of something
\* there is, whose destination lies in a directory that is missing, returns
\* in every mode, and the tree is the tree before (without src, for a move)
\* with the entry at the destination, in fresh directories that hold nothing
\* else.
MissingDirectoriesAreCreated ==
  (/\ call.op \in {"writeSync", "mkdirSync", "copySync", "moveSync"}
   /\ parentMissing(destination)
   /\ call.op \in {"copySync", "moveSync"} =>
        (occupiedBefore(call.path) /\ Apart(call.path, call.dst))) =>
    /\ ~outcome.threw
    /\ root = placeAt(IF call.op = "moveSync"
                      THEN removeAt(before.root, targetBefore(call.path).val.components)
                      ELSE before.root,
                      targetBefore(destination).val.components, placed)

\* the Pathish addresses the root, or a name in a directory there is
resolvableBefore(path) ==
  /\ targetBefore(path).ok
  /\ \/ addressesRoot(path)
     \/ entryAt(before.root, Front(targetBefore(path).val.components)).kind = "directory"

\* C16: statSync changes no tree; where the path addresses the root or a name
\* in a directory there is, it returns "directory", "data" or "nothing" for
\* what is there; otherwise it throws.
StatReportsTheKind ==
  call.op = "statSync" =>
    /\ root = before.root
    /\ IF resolvableBefore(call.path)
       THEN ~outcome.threw /\ outcome.value = foundBefore(call.path).kind
       ELSE outcome.threw

\* C17: eq returns, true iff the two trees are the same from their roots,
\* wherever the working directories are, and changes no tree.
EqIsStructuralEquality ==
  call.op = "eq" =>
    /\ ~outcome.threw
    /\ outcome.value = "true" <=> root = call.other.root
    /\ root = before.root

\* C24: whatever calls of cd have been made, and however they ended, pwd()
\* is an absolute path and there is a directory of the tree at it.
PwdIsADirectory ==
  /\ isAbsolute(pwd(Fs))
  /\ getParentSteps(pwd(Fs)) = 0
  /\ entryAt(root, pwd(Fs).components).kind = "directory"

\* a cd made in /a/b has thrown, and the working directory is still /a/b
PwdWitness ==
  /\ call.op = "cd" /\ outcome.threw
  /\ pwd(before) = absolute(<<<<"a">>, <<"b">>>>).val
  /\ pwd(Fs) = pwd(before)

ErrorClasses == {"MemoryFsError", "ConcatPathError", "ParseSimpleFsPathError"}

\* C25: every error a call on the filesystem throws, or rejects with, has as
\* its name one of MemoryFsError, ConcatPathError and ParseSimpleFsPathError.
ErrorsAreOfTheThreeClasses ==
  (call.op # "none" /\ (outcome.threw \/ outcome.promise = "rejected")) =>
    outcome.err \in ErrorClasses

-----------------------------------------------------------------------------
(* Properties of MemoryDirectory.resolveAbsolutePath, checked under        *)
(* ResolveSpec.                                                            *)

\* the components above the last one
Parents(comps) == IF Len(comps) = 0 THEN <<>> ELSE Front(comps)

\* C27: resolveAbsolutePath(path, false) leaves the tree as it is; with no
\* components it gives the directory it is called on; where the components
\* above the last lead to a directory it gives what is at the last one, or
\* "nothing"; where one of them is missing it throws NO_SUCH_FILE, and where
\* one of them is a data file it throws EXPECTED_DIRECTORY_GOT_DATA.
ResolveClassifies ==
  (resolution.done /\ ~resolution.createParentDirs) =>
    LET this == resolution.this
        comps == resolution.path.components
        result == resolution.result
        parent == entryAt(this, Parents(comps))
    IN  /\ result.dir = this
        /\ IF Len(comps) = 0
           THEN result.ok /\ result.found = "directory" /\ result.entry = this
           ELSE IF parent.kind = "nothing"
           THEN ~result.ok /\ result.why = "NO_SUCH_FILE"
           ELSE IF parent.kind \in {"data", "blocked"}
           THEN ~result.ok /\ result.why = "EXPECTED_DIRECTORY_GOT_DATA"
           ELSE /\ result.ok
                /\ result.found = entryAt(this, comps).kind
                /\ result.found # "nothing" => result.entry = entryAt(this, comps)

\* /a/b/a has been resolved, without creating, in a tree whose /a/b is a data
\* file
ResolveWitness ==
  /\ resolution.done /\ ~resolution.createParentDirs
  /\ resolution.path.components = <<<<"a">>, <<"b">>, <<"a">>>>
  /\ entryAt(resolution.this, <<<<"a">>, <<"b">>>>).kind = "data"
  /\ ~resolution.result.ok
  /\ resolution.result.why = "EXPECTED_DIRECTORY_GOT_DATA"

\* the directory with a directory at every prefix of the components, fresh
\* where there was none
RECURSIVE withDirectories(_, _)
withDirectories(dir, comps) ==
  IF Len(comps) = 0 THEN dir
  ELSE contentsSet(dir, Head(comps),
                   withDirectories(IF Head(comps) \in DOMAIN dir.contents
                                   THEN dir.contents[Head(comps)] ELSE EmptyDirectory,
                                   Tail(comps)))

\* C28: resolveAbsolutePath(path, true) never throws NO_SUCH_FILE; when it
\* returns, there is a directory at every proper prefix of the path, empty
\* where it was missing, nothing else of the tree has changed, nothing has
\* been put at the last component, and the result is what is at the path.
ResolveCreatesParents ==
  (resolution.done /\ resolution.createParentDirs) =>
    LET this == resolution.this
        comps == resolution.path.components
        result == resolution.result
    IN  /\ ~result.ok => result.why # "NO_SUCH_FILE"
        /\ result.ok =>
             /\ \A k \in 0..(Len(comps) - 1) :
                  entryAt(result.dir, SubSeq(comps, 1, k)).kind = "directory"
             /\ result.dir = withDirectories(this, Parents(comps))
             /\ entryAt(result.dir, comps) = entryAt(this, comps)
             /\ result.found = entryAt(this, comps).kind
             /\ result.found # "nothing" => result.entry = entryAt(this, comps)

\* /a/b/a has been resolved, creating, in a tree without a: there are now
\* directories a and a/b, and nothing at a/b/a
ResolveCreatesWitness ==
  /\ resolution.done /\ resolution.createParentDirs
  /\ resolution.path.components = <<<<"a">>, <<"b">>, <<"a">>>>
  /\ <<"a">> \notin DOMAIN resolution.this.contents
  /\ <<"b">> \in DOMAIN resolution.this.contents
  /\ resolution.result.ok /\ resolution.result.found = "nothing"
  /\ entryAt(resolution.result.dir, <<<<"a">>, <<"b">>>>) = EmptyDirectory

\* C29: when resolveAbsolutePath(path, true) throws
\* EXPECTED_DIRECTORY_GOT_DATA, the tree is the tree before the call.
FailedResolveCreatesNothing ==
  (/\ resolution.done /\ resolution.createParentDirs
   /\ ~resolution.result.ok
   /\ resolution.result.why = "EXPECTED_DIRECTORY_GOT_DATA") =>
    resolution.result.dir = resolution.this

\* /a/b/a has been resolved, creating, in a tree whose /a/b is a data file,
\* and the call has thrown
FailedResolveWitness ==
  /\ resolution.done /\ resolution.createParentDirs
  /\ resolution.path.components = <<<<"a">>, <<"b">>, <<"a">>>>
  /\ entryAt(resolution.this, <<<<"a">>, <<"b">>>>).kind = "data"
  /\ ~resolution.result.ok
  /\ resolution.result.why = "EXPECTED_DIRECTORY_GOT_DATA"
  /\ resolution.result.dir = resolution.this


-----------------------------------------------------------------------------
(* Claims about the Path objects. *)

\* every component of the object p is a valid component
validObject(as, ps, p) ==
  \A i \in 1..Len(as[ps[p].components].elems) :
    isComponent(as[ps[p].components].elems[i])

\* the step leaves the relativity and the components of every Path as
\* they were
PathsPreserved ==
  /\ Len(paths') >= Len(paths)
  /\ \A p \in 1..Len(paths) : view(arrays', paths', p) = view(arrays, paths, p)

\* the methods of a Path
Methods == Readers \cup {"concat", "popFront", "getComponents"}

\* C22: relative and absolute throw exactly when a component is not valid
\* or the number of parent steps is negative, and every Path that exists
\* has only valid components, a natural number of parent steps when it is
\* relative and zero parent steps when it is absolute.
EveryPathIsValid ==
  /\ last.op \in {"relative", "absolute"} =>
       (last.threw <=>
          \/ \E i \in 1..Len(arrays[last.array].elems) :
               ~isComponent(arrays[last.array].elems[i])
          \/ last.steps < 0)
  /\ \A p \in 1..Len(paths) :
       /\ validObject(arrays, paths, p)
       /\ paths[p].relativity \in Nat \cup {Absolute}
       /\ isAbsolute(view(arrays, paths, p)) =>
            getParentSteps(view(arrays, paths, p)) = 0

\* C23: no method of a Path changes the relativity or the components of
\* any Path, concat and popFront leave their receiver and their argument as
\* they were, and changing an array that getComponents returned changes no
\* Path.
PathsAreNeverMutated ==
  [][(\/ last'.op \in Methods
      \/ last'.op = "mutate" /\ arrays[last'.array].returned) => PathsPreserved]_vars

\* an array that getComponents returned was changed, and the Path it was
\* taken from has other components than the array now
ReturnedArrayChanged ==
  /\ last.op = "mutate"
  /\ arrays[last.array].returned
  /\ Len(paths) = 1
  /\ view(arrays, paths, 1).components # arrays[last.array].elems

\* C30: changing the array a Path was constructed from changes no Path,
\* and leaves every Path with valid components only.
PathIsIsolatedFromItsArray ==
  [][(last'.op = "mutate" /\ arrays[last'.array].passed) =>
       /\ PathsPreserved
       /\ \A p \in 1..Len(paths) : validObject(arrays', paths', p)]_vars

=============================================================================
